---- MODULE Spec2Model ----
(***************************************************************************)
(* The trigger units of pyolib/trigger.py (TrigRand, TrigChoice, TrigFunc, *)
(* TrigEnv, Counter, Select) as a state machine.                           *)
(*                                                                         *)
(* A run holds ONE unit: Init is the state after its constructor, the      *)
(* actions are its setters and the engine's processing of one sample of    *)
(* the current buffer on every channel.  The Python wrappers are           *)
(* translated from trigger.py.  The objects they drive (the *_base         *)
(* objects, InputFader, convertArgsToLists, wrap, the engine's tick) live  *)
(* in _core, outside trigger.py; they are modelled from the design         *)
(* document and marked so in the model map.                                *)
(*                                                                         *)
(* Values: samples and parameters are integers; the crossfaded input is a  *)
(* rational <<num, den>>.  Time is counted in samples.                     *)
(***************************************************************************)
EXTENDS Integers, Sequences, FiniteSets, TLC

VARIABLES
    kind,       \* the class of the unit
    self,       \* the wrapper's attributes (self._input, self._min, ...)
    in_fader,   \* self._in_fader: one crossfader channel per input channel
    base_objs,  \* self._base_objs: one base object per channel
    smp,        \* the current sample of every source stream
    samp,       \* offset of the next sample in the current buffer
    call,       \* the setter call in progress on the control thread
    own         \* history: the last step was a setter called with the value
                \* its getter returned

vars == <<kind, self, in_fader, base_objs, smp, samp, call, own>>

-----------------------------------------------------------------------------
(* Bounds of the model *)

\* samples per buffer
BufSize == 2
\* longest fade, in samples
MaxFade == 2
\* fades started while a fade is in progress, one on the other
MaxNest == 1
\* a random draw is a number in 0..MaxRand
MaxRand == 1

\* setInput's default fadetime (0.05 s), in samples of the model's clock
DefaultFade == 2

-----------------------------------------------------------------------------
(* Python values *)

\* a scalar argument
S(x) == [islist |-> FALSE, v |-> <<x>>]
\* a list argument
L(s) == [islist |-> TRUE, v |-> s]

Max(A) == CHOOSE m \in A : \A n \in A : n <= m

\* convertArgsToLists of one argument: a scalar becomes a one-element list
convertArgsToLists(x) == x.v

\* the lmax convertArgsToLists returns: the longest of the lists
lmaxOf(lists) == Max({Len(lists[k]) : k \in DOMAIN lists})

\* wrap(arg, i): element i of the list, the index wrapping round (i from 0)
wrap(arg, i) == arg[(i % Len(arg)) + 1]

-----------------------------------------------------------------------------
(* Rationals *)

Abs(n) == IF n < 0 THEN -n ELSE n

RECURSIVE GCD(_, _)
GCD(a, b) == IF b = 0 THEN a ELSE GCD(b, a % b)

RNorm(n, d) == LET g == GCD(Abs(n), d) IN <<n \div g, d \div g>>
RAdd(a, b) == RNorm(a[1] * b[2] + b[1] * a[2], a[2] * b[2])
RMul(a, b) == RNorm(a[1] * b[1], a[2] * b[2])
RLt(a, b) == a[1] * b[2] < b[1] * a[2]
RInt(n) == <<n, 1>>

-----------------------------------------------------------------------------
(* Input sources and the crossfader.  A crossfader channel: w the weights *)
(* of the blend the fade starts from, to the stream it fades to, t the     *)
(* samples since the fade started, T the fade time, nest the fades it was  *)
(* started on.                                                             *)

\* the PyoObjects a unit can be given as input: a has two streams, b is a[1]
Inputs == {"a", "b"}
StreamsOf(x) == IF x = "a" THEN <<0, 1>> ELSE <<1>>
Streams == {0, 1}
SampleVals == {0, 1}

Unit(st) == [s \in Streams |-> IF s = st THEN RInt(1) ELSE RInt(0)]

Steady(st) == [w |-> Unit(st), to |-> st, t |-> 0, T |-> 0, nest |-> 0]

\* InputFader(input): one channel per stream of the input
InputFader(input) == [j \in 1..Len(StreamsOf(input)) |-> Steady(StreamsOf(input)[j])]

\* the weights of the blend a crossfader channel puts out now
CurW(f) ==
    IF f.t >= f.T THEN Unit(f.to)
    ELSE [s \in Streams |->
            RAdd(RMul(RNorm(f.T - f.t, f.T), f.w[s]),
                 RMul(RNorm(f.t, f.T), Unit(f.to)[s]))]

RECURSIVE Mix(_, _, _)
Mix(w, s, SS) ==
    IF SS = {} THEN RInt(0)
    ELSE LET x == CHOOSE x \in SS : TRUE
         IN  RAdd(RMul(w[x], RInt(s[x])), Mix(w, s, SS \ {x}))

\* the output sample of a crossfader channel for the source samples s
FaderOut(f, s) == Mix(CurW(f), s, Streams)

\* a crossfader channel after one sample
FaderAdvance(f) == IF f.t + 1 >= f.T THEN Steady(f.to) ELSE [f EXCEPT !.t = @ + 1]

\* InputFader.setInput(x, fadetime): a fresh fade from the current blend to
\* stream i mod len(x) of x; a blend that is the new stream already needs no fade
InputFader_setInput(x, fadetime) ==
    [j \in DOMAIN in_fader |->
        LET f == in_fader[j]
            st == wrap(StreamsOf(x), j - 1)
        IN  IF fadetime = 0 \/ CurW(f) = Unit(st) THEN Steady(st)
            ELSE [w |-> CurW(f), to |-> st, t |-> 0, T |-> fadetime,
                  nest |-> IF f.t < f.T /\ f.t > 0 THEN f.nest + 1 ELSE f.nest]]

\* a fade may be started on the blend of a fade in progress MaxNest times
CanFade == \A j \in DOMAIN in_fader :
               (0 < in_fader[j].t /\ in_fader[j].t < in_fader[j].T)
                   => in_fader[j].nest < MaxNest

\* Trigger Detector: a sample is a trigger when it is not zero
Trig(x) == x[1] # 0


-----------------------------------------------------------------------------
(* The base objects: one per channel.  inp is the crossfader channel the   *)
(* object reads, p its parameters, value the unit's own result, data the   *)
(* output sample value*mul+add; and of the last sample: xin the input      *)
(* sample read, nact the number of actions performed.                      *)

Lesser(a, b) == IF a <= b THEN a ELSE b
Greater(a, b) == IF a >= b THEN a ELSE b

Emit(b, v) == [b EXCEPT !.value = v, !.data = v * b.mul + b.add]

TrigRand_base(inp, min, max, mul, add) ==
    [inp |-> inp, p |-> [min |-> min, max |-> max],
     mul |-> mul, add |-> add, value |-> 0, data |-> 0, xin |-> RInt(0), nact |-> 0]

\* a trigger draws a value in [min, max), the bounds swapped when min > max
TrigRand_base_process(b, x, r) ==
    IF Trig(x)
    THEN LET lo == Lesser(b.p.min, b.p.max)
             hi == Greater(b.p.min, b.p.max)
             v == IF lo = hi THEN lo ELSE lo + (r % (hi - lo))
         IN  [Emit(b, v) EXCEPT !.nact = @ + 1]
    ELSE Emit(b, b.value)

TrigChoice_base(inp, choice, mul, add) ==
    [inp |-> inp, p |-> [choice |-> choice],
     mul |-> mul, add |-> add, value |-> 0, data |-> 0, xin |-> RInt(0), nact |-> 0]

\* a trigger picks one element of the choice sequence
TrigChoice_base_process(b, x, r) ==
    IF Trig(x)
    THEN LET c == b.p.choice.v
         IN  [Emit(b, c[(r % Len(c)) + 1]) EXCEPT !.nact = @ + 1]
    ELSE Emit(b, b.value)

TrigFunc_base(inp, function) ==
    [inp |-> inp, p |-> [function |-> function],
     mul |-> 1, add |-> 0, value |-> 0, data |-> 0, xin |-> RInt(0), nact |-> 0, called |-> "none"]

\* a trigger calls the registered function, which returns before the sample is left
TrigFunc_base_process(b, x, r) ==
    IF Trig(x)
    THEN [b EXCEPT !.nact = @ + 1, !.called = b.p.function]
    ELSE b

TrigEnv_base(inp, table, dur, mul, add) ==
    [inp |-> inp, p |-> [table |-> table, dur |-> dur],
     mul |-> mul, add |-> add, value |-> 0, data |-> 0, xin |-> RInt(0), nact |-> 0,
     playing |-> FALSE, cnt |-> 0, pdur |-> 0, cut |-> FALSE]

\* the sample of the table a playback of pdur samples reads after cnt samples
TableRead(table, cnt, pdur) ==
    IF cnt < pdur /\ Len(table) > 0 THEN table[((cnt * Len(table)) \div pdur) + 1] ELSE 0

\* a trigger restarts the playback with the current dur; a playback runs its own
\* duration and then the output is zero.  cut records that the trigger of this
\* sample found a playback running and discarded the rest of it
TrigEnv_base_process(b, x, r) ==
    LET st == IF Trig(x)
              THEN [b EXCEPT !.playing = TRUE, !.cnt = 0, !.pdur = b.p.dur, !.nact = @ + 1,
                             !.cut = b.playing]
              ELSE [b EXCEPT !.cut = FALSE]
        v == IF st.playing THEN TableRead(st.p.table, st.cnt, st.pdur) ELSE 0
        nx == IF st.playing /\ st.cnt + 1 < st.pdur
              THEN [st EXCEPT !.cnt = @ + 1]
              ELSE [st EXCEPT !.playing = FALSE, !.cnt = 0, !.pdur = 0]
    IN  Emit(nx, v)

Counter_base(inp, min, max, dir, mul, add) ==
    [inp |-> inp, p |-> [min |-> min, max |-> max, dir |-> dir],
     mul |-> mul, add |-> add, value |-> IF dir = 1 THEN max ELSE min, data |-> 0,
     xin |-> RInt(0), nact |-> 0, updown |-> 1]

\* one step of the counter from value v in phase ud: <<value, phase>>
CounterStep(v, ud, min, max, dir) ==
    IF v < min THEN <<min, ud>>
    ELSE IF v > max THEN <<max, ud>>
    ELSE IF dir = 1 THEN <<IF v <= min THEN max ELSE v - 1, ud>>
    ELSE IF dir = 2 THEN
        IF min >= max THEN <<v, ud>>
        ELSE IF ud = 1 THEN (IF v >= max THEN <<v - 1, -1>> ELSE <<v + 1, 1>>)
        ELSE (IF v <= min THEN <<v + 1, 1>> ELSE <<v - 1, -1>>)
    ELSE <<IF v >= max THEN min ELSE v + 1, ud>>

Counter_base_process(b, x, r) ==
    IF Trig(x)
    THEN LET n == CounterStep(b.value, b.updown, b.p.min, b.p.max, b.p.dir)
         IN  [Emit(b, n[1]) EXCEPT !.updown = n[2], !.nact = @ + 1]
    ELSE Emit(b, b.value)

Select_base(inp, value) ==
    [inp |-> inp, p |-> [value |-> value],
     mul |-> 1, add |-> 0, value |-> 0, data |-> 0, xin |-> RInt(0), nact |-> 0]

\* 1 at a sample equal to value, else 0
Select_base_process(b, x, r) == Emit(b, IF x = RInt(b.p.value) THEN 1 ELSE 0)

\* a base object as it reads the input sample x: nothing done at it yet
Start(b, x) == [b EXCEPT !.nact = 0, !.xin = x]

process(b, x, r) ==
    CASE kind = "TrigRand" -> TrigRand_base_process(b, x, r)
      [] kind = "TrigChoice" -> TrigChoice_base_process(b, x, r)
      [] kind = "TrigFunc" -> TrigFunc_base_process(b, x, r)
      [] kind = "TrigEnv" -> TrigEnv_base_process(b, x, r)
      [] kind = "Counter" -> Counter_base_process(b, x, r)
      [] kind = "Select" -> Select_base_process(b, x, r)

\* the draws a unit can need at one sample
Draws == IF kind \in {"TrigRand", "TrigChoice"} THEN 0..MaxRand ELSE {0}

-----------------------------------------------------------------------------
(* The arguments the constructors and setters are called with *)

RandMinArgs == {S(0), L(<<0, 1>>)}
RandMaxArgs == {S(2), L(<<3, 0>>)}
ChoiceArgs == {L(<<1, 2>>), L(<<3>>)}
FunctionArgs == {S("f"), L(<<"f", "g">>)}
TableArgs == {S(<<2, 1>>), L(<<<<3>>, <<>>>>)}
DurArgs == {S(1), L(<<3, 2>>)}
MinArgs == {S(0), L(<<0, 1>>)}
MaxArgs == {S(3), L(<<1, 3>>)}
DirArgs == {S(0), L(<<2, 1>>)}
ValueArgs == {S(1), L(<<0, 1>>)}
MulAddArgs(x) == IF x = "b" THEN {<<S(1), S(0)>>, <<L(<<1, 2>>), S(0)>>} ELSE {<<S(1), S(0)>>}
FadeTimes == 0..MaxFade

\* the crossfader as an argument of convertArgsToLists: the list of its channels
FaderList(fd) == [j \in 1..Len(fd) |-> j]

-----------------------------------------------------------------------------
(* The constructors: the attributes, the crossfader and the base objects *)

TrigRand_init(input, min, max, mul, add) ==
    LET fd == InputFader(input)
        in == FaderList(fd)
        lmax == lmaxOf(<<in, convertArgsToLists(min), convertArgsToLists(max),
                         convertArgsToLists(mul), convertArgsToLists(add)>>)
    IN  [self |-> [input |-> input, min |-> min, max |-> max, mul |-> mul, add |-> add],
         in_fader |-> fd,
         base_objs |-> [i \in 1..lmax |->
             TrigRand_base(wrap(in, i - 1), wrap(convertArgsToLists(min), i - 1),
                           wrap(convertArgsToLists(max), i - 1),
                           wrap(convertArgsToLists(mul), i - 1),
                           wrap(convertArgsToLists(add), i - 1))]]

TrigChoice_init(input, choice, mul, add) ==
    LET fd == InputFader(input)
        in == FaderList(fd)
        lmax == lmaxOf(<<in, convertArgsToLists(mul), convertArgsToLists(add)>>)
    IN  [self |-> [input |-> input, choice |-> choice, mul |-> mul, add |-> add],
         in_fader |-> fd,
         base_objs |-> [i \in 1..lmax |->
             TrigChoice_base(wrap(in, i - 1), choice,
                             wrap(convertArgsToLists(mul), i - 1),
                             wrap(convertArgsToLists(add), i - 1))]]

\* TrigFunc.__init__ as it would be were the channels of the crossfader handed
\* out one place off: wrap(in_fader, i+1)
TrigFunc_init_shifted(input, function, mul, add) ==
    LET fd == InputFader(input)
        in == FaderList(fd)
        lmax == lmaxOf(<<in, convertArgsToLists(function)>>)
    IN  [self |-> [input |-> input, function |-> function],
         in_fader |-> fd,
         base_objs |-> [i \in 1..lmax |->
             TrigFunc_base(wrap(in, i), wrap(convertArgsToLists(function), i - 1))]]

TrigFunc_init(input, function, mul, add) ==
    LET fd == InputFader(input)
        in == FaderList(fd)
        lmax == lmaxOf(<<in, convertArgsToLists(function)>>)
    IN  [self |-> [input |-> input, function |-> function],
         in_fader |-> fd,
         base_objs |-> [i \in 1..lmax |->
             TrigFunc_base(wrap(in, i - 1), wrap(convertArgsToLists(function), i - 1))]]

TrigEnv_init(input, table, dur, mul, add) ==
    LET fd == InputFader(input)
        in == FaderList(fd)
        lmax == lmaxOf(<<in, convertArgsToLists(table), convertArgsToLists(dur),
                         convertArgsToLists(mul), convertArgsToLists(add)>>)
    IN  [self |-> [input |-> input, table |-> table, dur |-> dur, mul |-> mul, add |-> add],
         in_fader |-> fd,
         base_objs |-> [i \in 1..lmax |->
             TrigEnv_base(wrap(in, i - 1), wrap(convertArgsToLists(table), i - 1),
                          wrap(convertArgsToLists(dur), i - 1),
                          wrap(convertArgsToLists(mul), i - 1),
                          wrap(convertArgsToLists(add), i - 1))]]

\* Counter.__init__ as it would be were dir left out of convertArgsToLists, so
\* that a list of directions adds no channels
Counter_init_dir_uncounted(input, min, max, dir, mul, add) ==
    LET fd == InputFader(input)
        in == FaderList(fd)
        lmax == lmaxOf(<<in, convertArgsToLists(min), convertArgsToLists(max),
                         convertArgsToLists(mul), convertArgsToLists(add)>>)
    IN  [self |-> [input |-> input, min |-> min, max |-> max, dir |-> dir,
                   mul |-> mul, add |-> add],
         in_fader |-> fd,
         base_objs |-> [i \in 1..lmax |->
             Counter_base(wrap(in, i - 1), wrap(convertArgsToLists(min), i - 1),
                          wrap(convertArgsToLists(max), i - 1),
                          wrap(convertArgsToLists(dir), i - 1),
                          wrap(convertArgsToLists(mul), i - 1),
                          wrap(convertArgsToLists(add), i - 1))]]

Counter_init(input, min, max, dir, mul, add) ==
    LET fd == InputFader(input)
        in == FaderList(fd)
        lmax == lmaxOf(<<in, convertArgsToLists(min), convertArgsToLists(max),
                         convertArgsToLists(dir), convertArgsToLists(mul),
                         convertArgsToLists(add)>>)
    IN  [self |-> [input |-> input, min |-> min, max |-> max, dir |-> dir,
                   mul |-> mul, add |-> add],
         in_fader |-> fd,
         base_objs |-> [i \in 1..lmax |->
             Counter_base(wrap(in, i - 1), wrap(convertArgsToLists(min), i - 1),
                          wrap(convertArgsToLists(max), i - 1),
                          wrap(convertArgsToLists(dir), i - 1),
                          wrap(convertArgsToLists(mul), i - 1),
                          wrap(convertArgsToLists(add), i - 1))]]

Select_init(input, value) ==
    LET fd == InputFader(input)
        in == FaderList(fd)
        lmax == lmaxOf(<<in, convertArgsToLists(value)>>)
    IN  [self |-> [input |-> input, value |-> value],
         in_fader |-> fd,
         base_objs |-> [i \in 1..lmax |->
             Select_base(wrap(in, i - 1), wrap(convertArgsToLists(value), i - 1))]]

Kinds == {"TrigRand", "TrigChoice", "TrigFunc", "TrigEnv", "Counter", "Select"}

\* the units a run can start with
Units(k) ==
    UNION {
      CASE k = "TrigRand" ->
             {TrigRand_init(x, mn, mx, ma[1], ma[2]) :
                  mn \in RandMinArgs, mx \in RandMaxArgs, ma \in MulAddArgs(x)}
        [] k = "TrigChoice" ->
             {TrigChoice_init(x, c, ma[1], ma[2]) : c \in ChoiceArgs, ma \in MulAddArgs(x)}
        [] k = "TrigFunc" ->
             {TrigFunc_init(x, f, ma[1], ma[2]) : f \in FunctionArgs, ma \in MulAddArgs(x)}
        [] k = "TrigEnv" ->
             {TrigEnv_init(x, tb, d, ma[1], ma[2]) :
                  tb \in TableArgs, d \in DurArgs, ma \in MulAddArgs(x)}
        [] k = "Counter" ->
             {Counter_init(x, mn, mx, d, ma[1], ma[2]) :
                  mn \in MinArgs, mx \in MaxArgs, d \in DirArgs, ma \in MulAddArgs(x)}
        [] k = "Select" ->
             {Select_init(x, v) : v \in ValueArgs}
      : x \in Inputs }

Idle == [P |-> "none", i |-> 0]

Init ==
    \E k \in Kinds : \E u \in Units(k) :
        /\ kind = k
        /\ self = u.self
        /\ in_fader = u.in_fader
        /\ base_objs = u.base_objs
        /\ smp = [s \in Streams |-> 0]
        /\ samp = 0
        /\ call = Idle
        /\ own = FALSE

-----------------------------------------------------------------------------
(* setInput: the same three lines in every class *)

\* setInput as it would be without its last line: the attribute is assigned
\* and the crossfader is never told
setInput_unforwarded(x, fadetime) ==
    /\ call.P = "none"
    /\ CanFade
    /\ self' = [self EXCEPT !.input = x]
    /\ own' = FALSE
    /\ UNCHANGED <<kind, in_fader, base_objs, smp, samp, call>>

setInput(x, fadetime) ==
    /\ call.P = "none"
    /\ CanFade
    /\ self' = [self EXCEPT !.input = x]
    /\ in_fader' = InputFader_setInput(x, fadetime)
    /\ own' = FALSE
    /\ UNCHANGED <<kind, base_objs, smp, samp, call>>

TrigRand_setInput(x, fadetime) == kind = "TrigRand" /\ setInput(x, fadetime)
TrigChoice_setInput(x, fadetime) == kind = "TrigChoice" /\ setInput(x, fadetime)
TrigFunc_setInput(x, fadetime) == kind = "TrigFunc" /\ setInput(x, fadetime)
TrigEnv_setInput(x, fadetime) == kind = "TrigEnv" /\ setInput(x, fadetime)
Counter_setInput(x, fadetime) == kind = "Counter" /\ setInput(x, fadetime)
Select_setInput(x, fadetime) == kind = "Select" /\ setInput(x, fadetime)

-----------------------------------------------------------------------------
(* The parameter setters, each a whole call *)

\* [obj.setP(wrap(x,i)) for i, obj in enumerate(self._base_objs)]
ForEachObj(P, x) ==
    [i \in DOMAIN base_objs |-> [base_objs[i] EXCEPT !.p[P] = wrap(x, i - 1)]]

\* a parameter set while a buffer is processed is taken up when the next buffer
\* starts: the call is placed at that instant
AtBoundary == samp = 0

Frame == AtBoundary /\ UNCHANGED <<kind, in_fader, smp, samp, call>>

TrigRand_setMin(x) ==
    /\ kind = "TrigRand" /\ call.P = "none"
    /\ self' = [self EXCEPT !.min = x]
    /\ own' = (x = self.min)
    /\ base_objs' = ForEachObj("min", convertArgsToLists(x))
    /\ Frame

TrigRand_setMax(x) ==
    /\ kind = "TrigRand" /\ call.P = "none"
    /\ self' = [self EXCEPT !.max = x]
    /\ own' = (x = self.max)
    /\ base_objs' = ForEachObj("max", convertArgsToLists(x))
    /\ Frame

\* setChoice as it would be without its last line: the attribute is assigned
\* and the base objects keep the sequence they had
TrigChoice_setChoice_unforwarded(x) ==
    /\ kind = "TrigChoice" /\ call.P = "none"
    /\ self' = [self EXCEPT !.choice = x]
    /\ own' = (x = self.choice)
    /\ UNCHANGED base_objs
    /\ Frame

TrigChoice_setChoice(x) ==
    /\ kind = "TrigChoice" /\ call.P = "none"
    /\ self' = [self EXCEPT !.choice = x]
    /\ own' = (x = self.choice)
    /\ base_objs' = [i \in DOMAIN base_objs |-> [base_objs[i] EXCEPT !.p.choice = x]]
    /\ Frame

TrigFunc_setFunction(x) ==
    /\ kind = "TrigFunc" /\ call.P = "none"
    /\ self' = [self EXCEPT !.function = x]
    /\ own' = (x = self.function)
    /\ base_objs' = ForEachObj("function", convertArgsToLists(x))
    /\ Frame

\* setTable as it would be without its last line
TrigEnv_setTable_unforwarded(x) ==
    /\ kind = "TrigEnv" /\ call.P = "none"
    /\ self' = [self EXCEPT !.table = x]
    /\ own' = (x = self.table)
    /\ UNCHANGED base_objs
    /\ Frame

TrigEnv_setTable(x) ==
    /\ kind = "TrigEnv" /\ call.P = "none"
    /\ self' = [self EXCEPT !.table = x]
    /\ own' = (x = self.table)
    /\ base_objs' = ForEachObj("table", convertArgsToLists(x))
    /\ Frame

\* setDur as it would be with the elements handed out one place off:
\* obj.setDur(wrap(x, i+1))
TrigEnv_setDur_shifted(x) ==
    /\ kind = "TrigEnv" /\ call.P = "none"
    /\ self' = [self EXCEPT !.dur = x]
    /\ own' = (x = self.dur)
    /\ base_objs' = [i \in DOMAIN base_objs |->
                        [base_objs[i] EXCEPT !.p.dur = wrap(convertArgsToLists(x), i)]]
    /\ Frame

TrigEnv_setDur(x) ==
    /\ kind = "TrigEnv" /\ call.P = "none"
    /\ self' = [self EXCEPT !.dur = x]
    /\ own' = (x = self.dur)
    /\ base_objs' = ForEachObj("dur", convertArgsToLists(x))
    /\ Frame

Counter_setMin(x) ==
    /\ kind = "Counter" /\ call.P = "none"
    /\ self' = [self EXCEPT !.min = x]
    /\ own' = (x = self.min)
    /\ base_objs' = ForEachObj("min", convertArgsToLists(x))
    /\ Frame

\* setMax as it would be were its last line copied from setMin unchanged:
\* [obj.setMin(wrap(x,i)) ...]
Counter_setMax_as_setMin(x) ==
    /\ kind = "Counter" /\ call.P = "none"
    /\ self' = [self EXCEPT !.max = x]
    /\ own' = (x = self.max)
    /\ base_objs' = ForEachObj("min", convertArgsToLists(x))
    /\ Frame

Counter_setMax(x) ==
    /\ kind = "Counter" /\ call.P = "none"
    /\ self' = [self EXCEPT !.max = x]
    /\ own' = (x = self.max)
    /\ base_objs' = ForEachObj("max", convertArgsToLists(x))
    /\ Frame

\* setDir as it would be without its last line
Counter_setDir_unforwarded(x) ==
    /\ kind = "Counter" /\ call.P = "none"
    /\ self' = [self EXCEPT !.dir = x]
    /\ own' = (x = self.dir)
    /\ UNCHANGED base_objs
    /\ Frame

Counter_setDir(x) ==
    /\ kind = "Counter" /\ call.P = "none"
    /\ self' = [self EXCEPT !.dir = x]
    /\ own' = (x = self.dir)
    /\ base_objs' = ForEachObj("dir", convertArgsToLists(x))
    /\ Frame

\* setValue as it would be were the converted list kept as the attribute:
\* x, lmax = convertArgsToLists(x) before self._value = x
Select_setValue_list_kept(x) ==
    /\ kind = "Select" /\ call.P = "none"
    /\ self' = [self EXCEPT !.value = L(convertArgsToLists(x))]
    /\ own' = (x = self.value)
    /\ base_objs' = ForEachObj("value", convertArgsToLists(x))
    /\ Frame

Select_setValue(x) ==
    /\ kind = "Select" /\ call.P = "none"
    /\ self' = [self EXCEPT !.value = x]
    /\ own' = (x = self.value)
    /\ base_objs' = ForEachObj("value", convertArgsToLists(x))
    /\ Frame

-----------------------------------------------------------------------------
(* The engine: one sample of the current buffer, on every channel *)

Sample ==
    /\ \E s \in [Streams -> SampleVals], r \in [DOMAIN base_objs -> Draws] :
        LET out == [j \in DOMAIN in_fader |-> FaderOut(in_fader[j], s)]
        IN  /\ smp' = s
            /\ in_fader' = [j \in DOMAIN in_fader |-> FaderAdvance(in_fader[j])]
            /\ base_objs' = [i \in DOMAIN base_objs |->
                 LET x == out[base_objs[i].inp]
                 IN  process(Start(base_objs[i], x), x, r[i])]
    /\ samp' = (samp + 1) % BufSize
    /\ own' = FALSE
    /\ UNCHANGED <<kind, self, call>>

\* no fade is in progress
Settled == \A j \in DOMAIN in_fader : in_fader[j].t >= in_fader[j].T

\* setInput(x), with its default fadetime, and setInput(x, 0), one fade at a time
PlainFades == {0, DefaultFade}

Next ==
    \/ Sample
    \/ \E x \in Inputs, ft \in PlainFades : Settled /\ TrigRand_setInput(x, ft)
    \/ \E x \in Inputs, ft \in PlainFades : Settled /\ TrigChoice_setInput(x, ft)
    \/ \E x \in Inputs, ft \in PlainFades : Settled /\ TrigFunc_setInput(x, ft)
    \/ \E x \in Inputs, ft \in PlainFades : Settled /\ TrigEnv_setInput(x, ft)
    \/ \E x \in Inputs, ft \in PlainFades : Settled /\ Counter_setInput(x, ft)
    \/ \E x \in Inputs, ft \in PlainFades : Settled /\ Select_setInput(x, ft)
    \/ \E x \in RandMinArgs : TrigRand_setMin(x)
    \/ \E x \in RandMaxArgs : TrigRand_setMax(x)
    \/ \E x \in ChoiceArgs : TrigChoice_setChoice(x)
    \/ \E x \in FunctionArgs : TrigFunc_setFunction(x)
    \/ \E x \in TableArgs : TrigEnv_setTable(x)
    \/ \E x \in DurArgs : TrigEnv_setDur(x)
    \/ \E x \in MinArgs : Counter_setMin(x)
    \/ \E x \in MaxArgs : Counter_setMax(x)
    \/ \E x \in DirArgs : Counter_setDir(x)
    \/ \E x \in ValueArgs : Select_setValue(x)

Spec == Init /\ [][Next]_vars

-----------------------------------------------------------------------------
(* Input switching alone: units built with scalar parameters, every fade   *)
(* time, fades started on fades in progress.  The units that draw or count *)
(* are built on the one-channel source, the others on either source.       *)

InitFade ==
    /\ Init
    /\ \A P \in DOMAIN self \ {"input", "choice"} : ~self[P].islist
    /\ kind = "TrigChoice" => self.choice = L(<<1, 2>>)
    /\ kind \in {"TrigRand", "TrigChoice", "Counter"} => self.input = "b"

NextFade ==
    \/ Sample
    \/ \E x \in Inputs, ft \in FadeTimes : TrigRand_setInput(x, ft)
    \/ \E x \in Inputs, ft \in FadeTimes : TrigChoice_setInput(x, ft)
    \/ \E x \in Inputs, ft \in FadeTimes : TrigFunc_setInput(x, ft)
    \/ \E x \in Inputs, ft \in FadeTimes : TrigEnv_setInput(x, ft)
    \/ \E x \in Inputs, ft \in FadeTimes : Counter_setInput(x, ft)
    \/ \E x \in Inputs, ft \in FadeTimes : Select_setInput(x, ft)

SpecFade == InitFade /\ [][NextFade]_vars

-----------------------------------------------------------------------------
(* The setters called from a control thread while the engine runs: the     *)
(* attribute is assigned, then the base objects are set one by one, and    *)
(* the engine may process samples in between.                              *)

\* the parameters of a unit that have a setter in its class
Params == DOMAIN self \ {"input", "mul", "add"}

ArgsOf(P) ==
    CASE kind = "TrigRand" /\ P = "min" -> RandMinArgs
      [] kind = "TrigRand" /\ P = "max" -> RandMaxArgs
      [] P = "choice" -> ChoiceArgs
      [] P = "function" -> FunctionArgs
      [] P = "table" -> TableArgs
      [] P = "dur" -> DurArgs
      [] kind = "Counter" /\ P = "min" -> MinArgs
      [] kind = "Counter" /\ P = "max" -> MaxArgs
      [] P = "dir" -> DirArgs
      [] P = "value" -> ValueArgs

\* what base object i (from 0) is handed by the setter of P called with y
Handed(P, y, i) == IF P = "choice" THEN y ELSE wrap(convertArgsToLists(y), i)

\* self._P = x, and the list comprehension starts
Call(P, x) ==
    /\ call.P = "none" /\ AtBoundary
    /\ self' = [self EXCEPT ![P] = x]
    /\ own' = (x = self[P])
    /\ call' = [P |-> P, i |-> 0]
    /\ UNCHANGED <<kind, in_fader, base_objs, smp, samp>>

\* one turn of the list comprehension: obj.setP(wrap(x,i))
Apply ==
    /\ call.P # "none" /\ AtBoundary
    /\ base_objs' = [base_objs EXCEPT ![call.i + 1].p[call.P] =
                        Handed(call.P, self[call.P], call.i)]
    /\ call' = IF call.i + 1 = Len(base_objs) THEN Idle ELSE [call EXCEPT !.i = @ + 1]
    /\ UNCHANGED <<kind, self, in_fader, smp, samp, own>>

NextThreads ==
    \/ Sample
    \/ \E P \in Params : \E x \in ArgsOf(P) : Call(P, x)
    \/ Apply

SpecThreads == Init /\ [][NextThreads]_vars

-----------------------------------------------------------------------------
(* Properties *)

\* a step that processes a sample (every other step leaves samp alone)
SampleStep == samp' # samp

\* the crossfader channel that channel i (from 1) of a unit reads
InChan(i) == ((i - 1) % Len(in_fader)) + 1

\* the input sample channel i reads in a sample step
InputOf(i) == FaderOut(in_fader[InChan(i)], smp')

Elems(s) == {s[k] : k \in DOMAIN s}

Chans == DOMAIN base_objs

\* parameter P of channel i (from 1) of the unit: element (i-1) mod len of the
\* attribute when it is a list, the attribute itself when it is a scalar
Chan(P, i) == self[P].v[((i - 1) % Len(self[P].v)) + 1]

\* C1: at every sample and on every channel, a trigger unit performs exactly
\* one action (draw, choice, callback, restart, counter step) when the
\* channel's input sample is not zero and none when it is zero; so the
\* actions performed always number the non-zero samples seen.
C1_OneActionPerTrigger ==
    [][(SampleStep /\ kind # "Select") =>
         \A i \in Chans :
            /\ base_objs'[i].xin = InputOf(i)
            /\ base_objs'[i].nact = IF InputOf(i)[1] # 0 THEN 1 ELSE 0]_vars

\* C1 witness: a TrigFunc of two channels has just called the function of its
\* first channel and not that of its second, whose input sample was zero.
C1_Witness ==
    /\ kind = "TrigFunc"
    /\ Len(base_objs) = 2
    /\ base_objs[1].nact = 1 /\ base_objs[1].called = "f"
    /\ base_objs[2].nact = 0 /\ base_objs[2].xin = RInt(0)

\* the step of an up counter on the values 0..3, as a table: after 0,1,2,3
UpTable == <<1, 2, 3, 0>>

\* C2: a Counter channel with dir=0 and min <= max starts at min; while its
\* value is in [min, max], a trigger adds one to it, or takes it from max to
\* min, a sample without trigger leaves it, and it stays in [min, max]; the
\* output is the held value (times mul plus add).  With min=0, max=3 the
\* values follow 0,1,2,3,0,1,2.
C2_CounterUp ==
    /\ kind = "Counter" =>
         \A i \in Chans : Chan("dir", i) = 0 => base_objs[i].value = Chan("min", i)
    /\ [][(SampleStep /\ kind = "Counter") =>
            \A i \in Chans :
               LET b == base_objs[i]
                   c == base_objs'[i]
                   min == Chan("min", i)
                   max == Chan("max", i)
                   trig == InputOf(i)[1] # 0
               IN  (Chan("dir", i) = 0 /\ min <= b.value /\ b.value <= max) =>
                     /\ trig => c.value = IF b.value = max THEN min ELSE b.value + 1
                     /\ (trig /\ min = 0 /\ max = 3) => c.value = UpTable[b.value + 1]
                     /\ ~trig => c.value = b.value
                     /\ min <= c.value /\ c.value <= max
                     /\ c.data = c.value * Chan("mul", i) + Chan("add", i)]_vars

\* C2 witness: an up counter on 0..3 has just wrapped from 3 to 0.
C2_Witness ==
    /\ kind = "Counter" /\ samp # 0
    /\ \E i \in Chans :
          /\ Chan("min", i) = 0 /\ Chan("max", i) = 3 /\ Chan("dir", i) = 0
          /\ base_objs[i].nact = 1 /\ base_objs[i].value = 0

\* the step of an up-down counter on 0..3, as a table of <<value, phase>>:
\* going up after 0,1,2,3 and going down after 0,1,2,3
BounceUp == <<<<1, 1>>, <<2, 1>>, <<3, 1>>, <<2, -1>>>>
BounceDown == <<<<1, 1>>, <<0, -1>>, <<1, -1>>, <<2, -1>>>>

\* C3: a Counter channel with dir=2 and min < max, its value in [min, max]:
\* a trigger moves the value by exactly one and keeps it in [min, max], the
\* phase turns only at a bound, and a sample without trigger changes
\* nothing.  With min=0, max=3 the values follow 0,1,2,3,2,1,0,1.
C3_CounterUpDown ==
    [][(SampleStep /\ kind = "Counter") =>
         \A i \in Chans :
            LET b == base_objs[i]
                c == base_objs'[i]
                min == Chan("min", i)
                max == Chan("max", i)
                trig == InputOf(i)[1] # 0
            IN  (Chan("dir", i) = 2 /\ min < max /\ min <= b.value /\ b.value <= max) =>
                  /\ trig => Abs(c.value - b.value) = 1
                  /\ min <= c.value /\ c.value <= max
                  /\ c.updown # b.updown => (trig /\ b.value \in {min, max})
                  /\ (trig /\ min = 0 /\ max = 3) =>
                        <<c.value, c.updown>> =
                            IF b.updown = 1 THEN BounceUp[b.value + 1] ELSE BounceDown[b.value + 1]
                  /\ ~trig => c.value = b.value]_vars

\* C3 witness: an up-down counter on 0..3 has just come down from 3 to 2.
C3_Witness ==
    /\ kind = "Counter" /\ samp # 0
    /\ \E i \in Chans :
          /\ Chan("min", i) = 0 /\ Chan("max", i) = 3 /\ Chan("dir", i) = 2
          /\ base_objs[i].nact = 1 /\ base_objs[i].value = 2 /\ base_objs[i].updown = -1

\* C5: a TrigEnv channel has one playback position: a trigger, also one that
\* finds a playback running, makes this sample the first of the table (zero
\* for an empty table) and the playback go on from there with the current
\* dur; a playback left alone reads on through the table; once it has run
\* out, every sample without trigger is zero.
C5_TrigEnvRestart ==
    [][(SampleStep /\ kind = "TrigEnv") =>
         \A i \in Chans :
            LET b == base_objs[i]
                c == base_objs'[i]
                tb == Chan("table", i)
                dur == Chan("dur", i)
                trig == InputOf(i)[1] # 0
            IN  /\ trig => /\ c.value = IF Len(tb) > 0 THEN tb[1] ELSE 0
                           /\ c.cut = b.playing
                           /\ IF dur > 1 THEN c.playing /\ c.cnt = 1 /\ c.pdur = dur
                              ELSE ~c.playing
                /\ (~trig /\ b.playing) =>
                           /\ c.value = IF Len(tb) > 0
                                        THEN tb[((b.cnt * Len(tb)) \div b.pdur) + 1] ELSE 0
                           /\ c.playing = (b.cnt + 1 < b.pdur)
                           /\ c.playing => (c.cnt = b.cnt + 1 /\ c.pdur = b.pdur)
                /\ (~trig /\ ~b.playing) => (c.value = 0 /\ ~c.playing)
                /\ c.data = c.value * Chan("mul", i) + Chan("add", i)]_vars

\* C5 witness: a trigger has just cut a running playback short and the
\* output is back at the first sample of the table.
C5_Witness ==
    /\ kind = "TrigEnv" /\ samp # 0
    /\ \E i \in Chans :
          /\ base_objs[i].cut /\ base_objs[i].nact = 1
          /\ Chan("table", i) = <<2, 1>> /\ base_objs[i].value = 2

\* C5 witness of the other half: a playback has run out and the output is zero.
C5_Silent ==
    /\ kind = "TrigEnv" /\ samp # 0
    /\ \E i \in Chans : ~base_objs[i].playing /\ base_objs[i].nact = 0 /\ base_objs[i].value = 0

\* the stream of its input that channel i of the unit is to read
StreamOf(i) == StreamsOf(self.input)[((InChan(i) - 1) % Len(StreamsOf(self.input))) + 1]

Between(lo, x, hi) == (lo = x \/ RLt(lo, x)) /\ (x = hi \/ RLt(x, hi))
StrictlyBetween(lo, x, hi) == RLt(lo, x) /\ RLt(x, hi)

\* C4, as claimed: whenever a buffer is being processed, every parameter is on
\* all channels what one call of its setter (or the constructor) handed out:
\* no buffer is processed with the value of a call on some channels and the
\* value of the call before it on the others.
C4_NoTornBuffer ==
    samp # 0 =>
        \A P \in Params : \E x \in ArgsOf(P) :
            \A i \in Chans : base_objs[i].p[P] = Handed(P, x, i - 1)

\* C6, as claimed: at a sample strictly inside a fade the input a channel
\* reads is strictly between the sample of the old source and the sample of
\* the new one; at every sample from the end of the fade on it is the sample
\* of the new source.
C6_StrictlyBetween ==
    [][SampleStep =>
         \A i \in Chans :
            LET f == in_fader[InChan(i)]
                x == base_objs'[i].xin
                old == Mix(f.w, smp', Streams)
                new == RInt(smp'[StreamOf(i)])
            IN  /\ (0 < f.t /\ f.t < f.T) =>
                       (StrictlyBetween(old, x, new) \/ StrictlyBetween(new, x, old))
                /\ f.t >= f.T => x = new]_vars

\* C6: after setInput(x, T) on any unit, every channel reads, T samples or more
\* after the call, exactly the sample of its stream of x; at a sample strictly
\* inside the fade it reads a value between the sample of what it read before
\* and the sample of the new source, strictly between them when the two
\* differ and equal to them when they are equal.
C6_Crossfade ==
    [][SampleStep =>
         \A i \in Chans :
            LET f == in_fader[InChan(i)]
                x == base_objs'[i].xin
                old == Mix(f.w, smp', Streams)
                new == RInt(smp'[StreamOf(i)])
            IN  /\ (0 < f.t /\ f.t < f.T) =>
                       /\ Between(old, x, new) \/ Between(new, x, old)
                       /\ old # new =>
                            (StrictlyBetween(old, x, new) \/ StrictlyBetween(new, x, old))
                /\ f.t >= f.T => x = new]_vars

\* C6 witness: in the middle of a fade of two samples a channel reads one
\* half, the sources being at 0 and 1.
C6_Witness ==
    /\ samp # 0
    /\ \E i \in Chans :
          /\ base_objs[i].xin = <<1, 2>>
          /\ in_fader[InChan(i)].to = StreamOf(i)

\* the length a constructor argument counts with
ArgLen(P) == IF P = "input" THEN Len(StreamsOf(self.input)) ELSE Len(self[P].v)

\* C7: a unit is built with as many channels as the longest of its input and
\* its multi-channel parameters, the shorter ones handed out by index-wrap,
\* and no call changes the number of its channels or of its crossfader's.
C7_ChannelCount ==
    /\ LET counted == DOMAIN self \ {"choice"}
       IN  /\ Len(base_objs) = Max({ArgLen(P) : P \in counted})
           /\ Len(in_fader) = ArgLen("input")
           /\ \A i \in Chans :
                 /\ base_objs[i].inp = InChan(i)
                 /\ \A P \in Params \ {"choice"} : base_objs[i].p[P] = Chan(P, i)
                 /\ \A P \in {"mul", "add"} \cap DOMAIN self : base_objs[i][P] = Chan(P, i)
    /\ [][Len(base_objs') = Len(base_objs) /\ Len(in_fader') = Len(in_fader)]_vars

\* C7 witness: a Counter of one channel whose input and whose dir have since
\* been set to two-channel values, and that has counted since.
C7_Witness ==
    /\ kind = "Counter" /\ Len(base_objs) = 1 /\ Len(in_fader) = 1
    /\ self.input = "a" /\ self.dir = L(<<2, 1>>)
    /\ base_objs[1].nact = 1

\* C8, as claimed: once a channel of a TrigChoice has been triggered (its
\* value is no longer the initial 0, which no choice sequence holds), the
\* value it holds is an element of the current choice sequence.
C8_HeldInCurrentChoice ==
    kind = "TrigChoice" =>
        \A i \in Chans :
            base_objs[i].value # 0 => base_objs[i].value \in Elems(self.choice.v)

\* C8: at a trigger a TrigChoice channel takes an element of the choice
\* sequence current at that sample; every other sample and every call,
\* setChoice included, leaves the held value as it is.
C8_DrawnAtTrigger ==
    [][kind = "TrigChoice" =>
         \A i \in Chans :
            LET b == base_objs[i]
                c == base_objs'[i]
            IN  IF SampleStep /\ InputOf(i)[1] # 0
                THEN /\ c.value \in Elems(self.choice.v)
                     /\ c.data = c.value * Chan("mul", i) + Chan("add", i)
                ELSE c.value = b.value]_vars

\* C8 witness: a channel holds a value drawn before setChoice replaced the
\* sequence, and the value is not in the new sequence.
C8_Witness ==
    /\ kind = "TrigChoice" /\ samp # 0
    /\ \E i \in Chans :
          /\ base_objs[i].value # 0
          /\ base_objs[i].value \notin Elems(self.choice.v)
          /\ base_objs[i].p.choice = self.choice

\* C9: a setter called with the value the getter of its parameter returns
\* changes nothing: no attribute, no parameter or state of a channel, not the
\* crossfader; what the unit puts out from then on is what it would have put
\* out without the call.
C9_SetterIdempotent ==
    [][(own' \/ (~SampleStep /\ self' = self)) =>
          UNCHANGED <<kind, self, in_fader, base_objs, smp, samp>>]_vars

\* C9 witness: setDur has just been called with the list of durations a
\* two-channel TrigEnv had, while a playback was running.
C9_Witness ==
    /\ own /\ kind = "TrigEnv" /\ self.dur = L(<<3, 2>>) /\ Len(base_objs) = 2
    /\ \E i \in Chans : base_objs[i].playing /\ base_objs[i].cnt > 0

\* element i (from 1) of x as the setter of P hands it out: element (i-1) mod
\* len of a list, a scalar itself, and a choice sequence whole
ElemOf(P, x, i) == IF P = "choice" THEN x ELSE x.v[((i - 1) % Len(x.v)) + 1]

\* C10: a call of the setter of P leaves P's attribute one of the values as
\* passed (a scalar stays a scalar), hands base object i element i mod len of
\* it (the whole sequence for choice), and changes nothing else: no other
\* attribute, no other parameter or state of a channel, not the input, the
\* crossfader or the number of channels.
C10_SetterRoundTrip ==
    [][(~SampleStep /\ self'.input = self.input) =>
         /\ in_fader' = in_fader
         /\ DOMAIN base_objs' = DOMAIN base_objs
         /\ \A P \in Params :
               /\ self'[P] \in ArgsOf(P)
               /\ \A i \in Chans : base_objs'[i].p[P] = ElemOf(P, self'[P], i)
               /\ self'[P] # self[P] =>
                     /\ \A Q \in DOMAIN self \ {P} : self'[Q] = self[Q]
                     /\ \A i \in Chans :
                           base_objs'[i] = [base_objs[i] EXCEPT !.p[P] = ElemOf(P, self'[P], i)]]_vars

\* C10 witness: a Counter of one channel after setDir([2,1]) and a TrigChoice
\* after setChoice([3]) following a draw from [1,2]: the getter holds the list
\* as passed, the base object element 0 of it, or the whole sequence.
C10_Witness ==
    \/ /\ kind = "Counter" /\ Len(base_objs) = 1
       /\ self.dir = L(<<2, 1>>) /\ base_objs[1].p.dir = 2
       /\ self.min = S(0) /\ base_objs[1].p.min = 0
    \/ /\ kind = "TrigChoice"
       /\ self.choice = L(<<3>>) /\ samp = 0
       /\ \E i \in Chans : base_objs[i].value \in {1, 2} /\ base_objs[i].p.choice = L(<<3>>)

=============================================================================
